---- MODULE Spec2Model ----
(***************************************************************************)
(* Model of FATE-Flow's model synchronisation:                             *)
(*   python/fate_flow/model/sync_model.py          SyncModel, SyncComponent *)
(*   python/fate_flow/pipelined_model/pipelined_component.py               *)
(*                                                  PipelinedComponent      *)
(* Several worker processes on several hosts share one metadata database   *)
(* (tables MLModel and PipelineComponentMeta), one blob storage and one    *)
(* distributed lock service; each host has its own local model cache.      *)
(***************************************************************************)
EXTENDS Integers, FiniteSets, Sequences, TLC

(***************************************************************************)
(* Bounds of the model.                                                    *)
(***************************************************************************)
NumProcs == 2
MaxCalls == 2
MaxRows == 4

Procs == 1 .. NumProcs
NoProc == 0

Hosts == {"hostA", "hostB"}
Hashes == {"h1", "h2"}
Null == "null"
NoBlob == "no_blob"

\* fate_flow.settings.HOST of the host a worker process runs on
HOST(p) == IF p % 2 = 1 THEN "hostA" ELSE "hostB"

\* an MLModel row, reduced to the two fields the synchronisation touches
ModelRows == [sha : Hashes \cup {Null}, ip : Hosts \cup {Null}]
NullModel == [sha |-> Null, ip |-> Null]

VARIABLES
    MLModel,      \* table MLModel restricted to the identity: a set of 0 or 1 rows
    remote,       \* model blob in the storage: NoBlob or the hash of its bytes
    local,        \* local[h]: the model is complete in the local cache of host h
    locks,        \* locks[k]: the process holding the DB lock named k, or NoProc
    pc,           \* pc[p]: where process p is in its current call
    op,           \* op[p]: the method p is (or was last) running
    force,        \* force[p]: the force_update argument of the call
    model,        \* model[p]: the local variable `model`
    hash_,        \* hash_[p]: the local variable `hash_`
    ret,          \* ret[p]: how the last call ended, and the row it returned
    nStore,       \* nStore[p]: invocations of model_storage.store in this call
    restoreArg,   \* restoreArg[p]: hash_ passed to model_storage.restore, if invoked
    calls,        \* calls[p]: the number of calls p has started
    first,        \* first[p]: p's current call is the first call of all
    ncalls,       \* number of calls started so far
    storeCalls,   \* number of invocations of model_storage.store so far
    storeFailed,  \* some invocation of model_storage.store has raised
    seqNF,        \* so far the calls were upload(force_update=False), one after another
    rows,         \* table PipelineComponentMeta: a set of rows, each with its own id
    nextId,       \* the id the next inserted row gets
    cremote,      \* cremote[c]: component blob in the storage: NoBlob or its hash
    clocal,       \* clocal[h]: the components unpacked in the local cache of host h
    defineFile,   \* define/define_meta.yaml of the local cache: 0 or 1 documents
    runParams,    \* run_parameters/<component>/run_parameters.json: component -> document
    comp,         \* comp[p]: component_name of the SyncComponent p is calling
    query,        \* query[p]: the local variable `query` of replicate_define_meta
    modif,        \* modif[p]: the argument `modification` of replicate_define_meta
    tree,         \* the files under model_path: absolute path -> content
    dirs,         \* the component directories that exist under model_path
    archive,      \* archive[c]: the file get_archive_path(c): NoArchive or its bytes
    packed,       \* packed[c]: the tree the bytes of archive[c] were packed from, if known
    arg,          \* arg[p]: the argument hash_ of unpack_component
    verified,     \* verified[p]: this call has compared the hash of the archive
    handle        \* handle[p]: the attributes of the SyncComponent p is constructing

modelVars == <<MLModel, remote, local>>
procVars == <<pc, op, force, model, hash_, ret, nStore, restoreArg>>
histVars == <<calls, first, ncalls, storeCalls, storeFailed, seqNF>>
metaVars == <<rows, nextId, cremote, clocal, defineFile, runParams>>
packVars == <<tree, dirs, archive, packed, arg, verified, handle>>
compVars == <<rows, nextId, cremote, clocal, defineFile, runParams, comp, query, modif,
              tree, dirs, archive, packed, arg, verified, handle>>
vars == <<MLModel, remote, local, locks, pc, op, force, model, hash_, ret,
          nStore, restoreArg, calls, first, ncalls, storeCalls, storeFailed, seqNF,
          rows, nextId, cremote, clocal, defineFile, runParams, comp, query, modif,
          tree, dirs, archive, packed, arg, verified, handle>>

NoCall == "no_call"
Idle(p) == pc[p] \in {"idle", "done"}

(***************************************************************************)
(* The distributed lock DB.lock(name, -1): blocks until granted.           *)
(***************************************************************************)
PartyModelId == "guest#P1#m"
ModelVersion == "v1"
Components == {"c1", "c2"}

\* the name SyncModel.__init__ gives its lock
ModelLockKey == <<"sync_model", PartyModelId, ModelVersion>>

\* the name SyncComponent.__init__ gives its lock
ComponentLockKey(c) == <<"sync_component", PartyModelId, ModelVersion, c>>

\* self.model_path of PipelinedComponent, and the lock of
\* Locker.__init__(self.model_path)
ModelPath == "model_local_cache/guest#P1#m/v1"
PackLockKey == <<"locker", ModelPath>>

LockKeys == {ModelLockKey, PackLockKey} \cup {ComponentLockKey(c) : c \in Components}

LockAcquire(k, p) == locks[k] = NoProc /\ locks' = [locks EXCEPT ![k] = p]

LockRelease(k, p) == locks' = [locks EXCEPT ![k] = NoProc]

(***************************************************************************)
(* The storage backend and the local cache, as SyncModel sees them.        *)
(***************************************************************************)
\* SyncModel.remote_exits
remote_exits == remote # NoBlob

\* SyncModel.local_exits
local_exits(p) == local[HOST(p)]

\* model_storage.store: the hashes a successful call may return
StoreResults == Hashes

\* model_storage.restore(hash_=h): it can succeed only on a blob with that hash
RestoreCanSucceed(h) == remote # NoBlob /\ (h = Null \/ h = remote)

(***************************************************************************)
(* Start and end of a call.                                                *)
(***************************************************************************)
Begin(p, name, f) ==
    /\ Idle(p)
    /\ ncalls < MaxCalls
    /\ op' = [op EXCEPT ![p] = name]
    /\ force' = [force EXCEPT ![p] = f]
    /\ model' = [model EXCEPT ![p] = NullModel]
    /\ hash_' = [hash_ EXCEPT ![p] = Null]
    /\ nStore' = [nStore EXCEPT ![p] = 0]
    /\ restoreArg' = [restoreArg EXCEPT ![p] = NoCall]
    /\ ncalls' = ncalls + 1
    /\ calls' = [calls EXCEPT ![p] = @ + 1]
    /\ first' = [first EXCEPT ![p] = (ncalls = 0)]
    /\ seqNF' = (seqNF /\ name = "upload" /\ ~f /\ \A q \in Procs : Idle(q))

Return(p, kind, row) ==
    /\ pc' = [pc EXCEPT ![p] = "done"]
    /\ ret' = [ret EXCEPT ![p] = [kind |-> kind, row |-> row]]

(***************************************************************************)
(* SyncModel.upload                                                        *)
(***************************************************************************)
\* Upload as it would be without the existence check
Upload_NoCheck(p, f) ==
    /\ Begin(p, "upload", f)
    /\ pc' = [pc EXCEPT ![p] = "u_lock"]
    /\ UNCHANGED <<modelVars, locks, ret, storeCalls, storeFailed>>
    /\ UNCHANGED compVars

\* lines 86-88: the call and its existence check, made before the lock
Upload(p, f) ==
    /\ Begin(p, "upload", f)
    /\ IF remote_exits /\ ~f
         THEN Return(p, "None", NullModel)
         ELSE pc' = [pc EXCEPT ![p] = "u_lock"] /\ UNCHANGED ret
    /\ UNCHANGED <<modelVars, locks, storeCalls, storeFailed>>
    /\ UNCHANGED compVars

\* UploadLock as it would be without `with self.lock`
UploadLock_Unlocked(p) ==
    /\ pc[p] = "u_lock"
    /\ pc' = [pc EXCEPT ![p] = "u_get"]
    /\ UNCHANGED <<modelVars, locks, op, force, model, hash_, ret, nStore, restoreArg, histVars>>
    /\ UNCHANGED compVars

\* line 90: with self.lock
UploadLock(p) ==
    /\ pc[p] = "u_lock"
    /\ LockAcquire(ModelLockKey, p)
    /\ pc' = [pc EXCEPT ![p] = "u_get"]
    /\ UNCHANGED <<modelVars, op, force, model, hash_, ret, nStore, restoreArg, histVars>>
    /\ UNCHANGED compVars

\* UploadGetModel as it would be if a missing row were tolerated
UploadGetModel_NoRaise(p) ==
    /\ pc[p] = "u_get"
    /\ model' = [model EXCEPT ![p] = IF MLModel = {} THEN NullModel
                                     ELSE CHOOSE m \in MLModel : TRUE]
    /\ pc' = [pc EXCEPT ![p] = "u_store"]
    /\ UNCHANGED <<modelVars, locks, op, force, hash_, ret, nStore, restoreArg, histVars>>
    /\ UNCHANGED compVars

\* line 91: model = self.get_model(); MLModel.get raises DoesNotExist on no row
UploadGetModel(p) ==
    /\ pc[p] = "u_get"
    /\ IF MLModel = {}
         THEN /\ Return(p, "DoesNotExist", NullModel)
              /\ LockRelease(ModelLockKey, p)
              /\ UNCHANGED model
         ELSE /\ model' = [model EXCEPT ![p] = CHOOSE m \in MLModel : TRUE]
              /\ pc' = [pc EXCEPT ![p] = "u_store"]
              /\ UNCHANGED <<ret, locks>>
    /\ UNCHANGED <<modelVars, op, force, hash_, nStore, restoreArg, histVars>>
    /\ UNCHANGED compVars

\* UploadStore as it would be if the lock were released on the normal path only
UploadStore_NoRelease(p) ==
    /\ pc[p] = "u_store"
    /\ nStore' = [nStore EXCEPT ![p] = @ + 1]
    /\ storeCalls' = storeCalls + 1
    /\ \/ \E h \in StoreResults :
            /\ remote' = h
            /\ hash_' = [hash_ EXCEPT ![p] = h]
            /\ pc' = [pc EXCEPT ![p] = "u_save"]
            /\ UNCHANGED <<ret, storeFailed>>
       \/ /\ Return(p, "StoreError", NullModel)
          /\ storeFailed' = TRUE
          /\ UNCHANGED <<remote, hash_>>
    /\ UNCHANGED <<MLModel, local, locks, op, force, model, restoreArg, calls, first, ncalls, seqNF>>
    /\ UNCHANGED compVars

\* line 93: hash_ = self.model_storage.store(...), which returns or raises
UploadStore(p) ==
    /\ pc[p] = "u_store"
    /\ nStore' = [nStore EXCEPT ![p] = @ + 1]
    /\ storeCalls' = storeCalls + 1
    /\ \/ \E h \in StoreResults :
            /\ remote' = h
            /\ hash_' = [hash_ EXCEPT ![p] = h]
            /\ pc' = [pc EXCEPT ![p] = "u_save"]
            /\ UNCHANGED <<ret, locks, storeFailed>>
       \/ /\ Return(p, "StoreError", NullModel)
          /\ LockRelease(ModelLockKey, p)
          /\ storeFailed' = TRUE
          /\ UNCHANGED <<remote, hash_>>
    /\ UNCHANGED <<MLModel, local, op, force, model, restoreArg, calls, first, ncalls, seqNF>>
    /\ UNCHANGED compVars

\* UploadSave as it would be without line 96 (f_archive_from_ip = HOST)
UploadSave_NoHost(p) ==
    /\ pc[p] = "u_save"
    /\ LockRelease(ModelLockKey, p)
    /\ \/ LET m == [model[p] EXCEPT !.sha = hash_[p]]
          IN /\ model' = [model EXCEPT ![p] = m]
             /\ MLModel' = {m}
             /\ Return(p, "model", m)
       \/ /\ Return(p, "SaveError", NullModel)
          /\ UNCHANGED <<MLModel, model>>
    /\ UNCHANGED <<remote, local, op, force, hash_, nStore, restoreArg, histVars>>
    /\ UNCHANGED compVars

\* lines 95-99: the row is written back with the new hash and this host, the
\* lock is left and the row returned; model.save() may raise
UploadSave(p) ==
    /\ pc[p] = "u_save"
    /\ LockRelease(ModelLockKey, p)
    /\ \/ LET m == [model[p] EXCEPT !.sha = hash_[p], !.ip = HOST(p)]
          IN /\ model' = [model EXCEPT ![p] = m]
             /\ MLModel' = {m}
             /\ Return(p, "model", m)
       \/ /\ Return(p, "SaveError", NullModel)
          /\ UNCHANGED <<MLModel, model>>
    /\ UNCHANGED <<remote, local, op, force, hash_, nStore, restoreArg, histVars>>
    /\ UNCHANGED compVars

(***************************************************************************)
(* SyncModel.download                                                      *)
(***************************************************************************)
\* lines 102-104
Download(p, f) ==
    /\ Begin(p, "download", f)
    /\ IF local_exits(p) /\ ~f
         THEN Return(p, "None", NullModel)
         ELSE pc' = [pc EXCEPT ![p] = "d_lock"] /\ UNCHANGED ret
    /\ UNCHANGED <<modelVars, locks, storeCalls, storeFailed>>
    /\ UNCHANGED compVars

\* line 106
DownloadLock(p) ==
    /\ pc[p] = "d_lock"
    /\ LockAcquire(ModelLockKey, p)
    /\ pc' = [pc EXCEPT ![p] = "d_get"]
    /\ UNCHANGED <<modelVars, op, force, model, hash_, ret, nStore, restoreArg, histVars>>
    /\ UNCHANGED compVars

\* line 107
DownloadGetModel(p) ==
    /\ pc[p] = "d_get"
    /\ IF MLModel = {}
         THEN /\ Return(p, "DoesNotExist", NullModel)
              /\ LockRelease(ModelLockKey, p)
              /\ UNCHANGED model
         ELSE /\ model' = [model EXCEPT ![p] = CHOOSE m \in MLModel : TRUE]
              /\ pc' = [pc EXCEPT ![p] = "d_restore"]
              /\ UNCHANGED <<ret, locks>>
    /\ UNCHANGED <<modelVars, op, force, hash_, nStore, restoreArg, histVars>>
    /\ UNCHANGED compVars

\* DownloadRestore as it would be if line 109 tested force_update alone
DownloadRestore_ForceOnly(p) ==
    /\ pc[p] = "d_restore"
    /\ LockRelease(ModelLockKey, p)
    /\ IF force[p]
         THEN /\ restoreArg' = [restoreArg EXCEPT ![p] = model[p].sha]
              /\ \/ /\ RestoreCanSucceed(model[p].sha)
                    /\ local' = [local EXCEPT ![HOST(p)] = TRUE]
                    /\ Return(p, "model", model[p])
                 \/ /\ Return(p, "RestoreError", NullModel)
                    /\ UNCHANGED local
         ELSE /\ Return(p, "model", model[p])
              /\ UNCHANGED <<local, restoreArg>>
    /\ UNCHANGED <<MLModel, remote, op, force, model, hash_, nStore, histVars>>
    /\ UNCHANGED compVars

\* lines 109-112: restore unless the row names this host, then leave the lock
DownloadRestore(p) ==
    /\ pc[p] = "d_restore"
    /\ LockRelease(ModelLockKey, p)
    /\ IF force[p] \/ model[p].ip # HOST(p)
         THEN /\ restoreArg' = [restoreArg EXCEPT ![p] = model[p].sha]
              /\ \/ /\ RestoreCanSucceed(model[p].sha)
                    /\ local' = [local EXCEPT ![HOST(p)] = TRUE]
                    /\ Return(p, "model", model[p])
                 \/ /\ Return(p, "RestoreError", NullModel)
                    /\ UNCHANGED local
         ELSE /\ Return(p, "model", model[p])
              /\ UNCHANGED <<local, restoreArg>>
    /\ UNCHANGED <<MLModel, remote, op, force, model, hash_, nStore, histVars>>
    /\ UNCHANGED compVars

(***************************************************************************)
(* Table PipelineComponentMeta and the files of the local cache            *)
(***************************************************************************)
Aliases == {"a1", "a2"}
Modules == {"m1"}
ProtoIndexes == {"p1"}
RunParameters == {"r1"}
Parties == {"P1", "P2"}

\* the party_id of the handles (role, model_id and model_version are the same
\* in every row of the model and left out of the rows)
SelfParty == "P1"

\* run_parameters.get(component_name, {}) on a component without a file
EmptyParameters == "{}"

\* a row as PipelineComponentMeta.insert makes it: no archive yet
NewRow(id, party, c, m, a, pi, rp) ==
    [id |-> id, party_id |-> party, component_name |-> c,
     component_module_name |-> m, model_alias |-> a, model_proto_index |-> pi,
     run_parameters |-> rp, archive_sha256 |-> Null, archive_from_ip |-> Null]

\* PipelinedComponent.query_args
SelfRows == {r \in rows : r.party_id = SelfParty}

\* the rows the conditions flt (field -> value) select
Matching(R, flt) == {r \in R : \A f \in DOMAIN flt : r[f] = flt[f]}

\* PipelinedComponent.get_define_meta_from_db(*query_args)
get_define_meta_from_db(flt) == Matching(SelfRows, flt)

\* SyncComponent.query_args
ComponentRows(c) == Matching(SelfRows, [component_name |-> c])

RECURSIVE SeqOf(_)
\* the elements of a finite set in some order, as a query or a dict yields them
SeqOf(S) ==
    IF S = {} THEN << >>
    ELSE LET x == CHOOSE y \in S : TRUE IN <<x>> \o SeqOf(S \ {x})

\* bulk_insert_into_db: every row of the list is inserted and gets a new id
BulkInsert(insert) ==
    /\ Cardinality(rows) + Len(insert) <= MaxRows
    /\ rows' = rows \cup {[insert[i] EXCEPT !.id = nextId + i - 1] : i \in 1 .. Len(insert)}
    /\ nextId' = nextId + Len(insert)

\* the .group_by(f_archive_sha256, f_archive_from_ip) of get_archive_hash
ArchiveGroups(c) ==
    {<<r.archive_sha256, r.archive_from_ip>> : r \in ComponentRows(c)}

\* get_archive_hash as it would be if it took the first group of several
get_archive_hash_First(c) ==
    IF ArchiveGroups(c) = {}
      THEN [ok |-> FALSE, hash |-> Null]
      ELSE [ok |-> TRUE, hash |-> (CHOOSE g \in ArchiveGroups(c) : TRUE)[1]]

\* SyncComponent.get_archive_hash: ok is FALSE where it raises ValueError
get_archive_hash(c) ==
    IF Cardinality(ArchiveGroups(c)) # 1
      THEN [ok |-> FALSE, hash |-> Null]
      ELSE [ok |-> TRUE, hash |-> (CHOOSE g \in ArchiveGroups(c) : TRUE)[1]]

\* SyncComponent.update_archive_hash: the table after the update
update_archive_hash(c, h, host) ==
    {IF r \in ComponentRows(c)
       THEN [r EXCEPT !.archive_sha256 = h, !.archive_from_ip = host]
       ELSE r : r \in rows}

\* component_storage.upload: the hashes a successful call may return
UploadResults == Hashes

\* component_storage.download(..., hash_): it can succeed only on a blob with
\* that hash (a hash of None is not compared)
ComponentDownloadCanSucceed(c, h) ==
    cremote[c] # NoBlob /\ (h = Null \/ h = cremote[c])

(***************************************************************************)
(* PipelinedComponent: the define_meta in the database                     *)
(***************************************************************************)
\* save_define_meta: one INSERT
SaveDefineMeta(p, c, m, a, pi, rp) ==
    /\ Begin(p, "save_define_meta", FALSE)
    /\ BulkInsert(<<NewRow(0, SelfParty, c, m, a, pi, rp)>>)
    /\ Return(p, "None", NullModel)
    /\ UNCHANGED <<modelVars, locks, storeCalls, storeFailed>>
    /\ UNCHANGED <<cremote, clocal, defineFile, runParams, comp, query, modif, packVars>>

\* save_define_meta_from_file_to_db, lines 134-137: the count, in a connection
\* of its own
FileToDbCount(p) ==
    /\ Begin(p, "save_define_meta_from_file_to_db", FALSE)
    /\ IF Cardinality(SelfRows) > 0
         THEN Return(p, "ValueError", NullModel)
         ELSE pc' = [pc EXCEPT ![p] = "f2d_insert"] /\ UNCHANGED ret
    /\ UNCHANGED <<modelVars, locks, storeCalls, storeFailed, compVars>>

\* the rows lines 142-156 build from the define_meta document doc
FileRows(doc) ==
    LET pairs == UNION {{<<c, a>> : a \in DOMAIN doc.model_proto[c]}
                          : c \in DOMAIN doc.component_define}
        row(ca) == NewRow(0, SelfParty, ca[1],
                          doc.component_define[ca[1]].module_name, ca[2],
                          doc.model_proto[ca[1]][ca[2]],
                          IF ca[1] \in DOMAIN runParams THEN runParams[ca[1]]
                                                         ELSE EmptyParameters)
        order == SeqOf(pairs)
    IN [i \in 1 .. Len(order) |-> row(order[i])]

\* save_define_meta_from_file_to_db, lines 139-158: the files are read (a missing
\* define_meta.yaml raises) and the rows inserted
FileToDbInsert(p) ==
    /\ pc[p] = "f2d_insert"
    /\ IF defineFile = {}
         THEN /\ Return(p, "FileNotFoundError", NullModel)
              /\ UNCHANGED <<rows, nextId>>
         ELSE /\ BulkInsert(FileRows(CHOOSE d \in defineFile : TRUE))
              /\ Return(p, "None", NullModel)
    /\ UNCHANGED <<modelVars, locks, op, force, model, hash_, nStore, restoreArg, histVars>>
    /\ UNCHANGED <<cremote, clocal, defineFile, runParams, comp, query, modif, packVars>>

\* replicate_define_meta, lines 161-163: the rows to copy are read
ReplicateQuery(p, modification, flt) ==
    /\ Begin(p, "replicate_define_meta", FALSE)
    /\ IF get_define_meta_from_db(flt) = {}
         THEN Return(p, "ValueError", NullModel) /\ UNCHANGED <<query, modif>>
         ELSE /\ query' = [query EXCEPT ![p] = get_define_meta_from_db(flt)]
              /\ modif' = [modif EXCEPT ![p] = modification]
              /\ pc' = [pc EXCEPT ![p] = "rep_insert"]
              /\ UNCHANGED ret
    /\ UNCHANGED <<modelVars, locks, storeCalls, storeFailed, metaVars, comp, packVars>>

\* the arguments replicate_define_meta is called with
Modifications == {[party_id |-> "P2"], [model_alias |-> "a2"]}
Filters == {[component_name |-> c] : c \in Components}

\* the copy as it would be if it did not carry the archive hash over
Modified_NoHash(r, modification) ==
    [f \in DOMAIN r |-> IF f \in DOMAIN modification THEN modification[f]
                        ELSE IF f = "archive_sha256" THEN Null ELSE r[f]]

\* row.update(modification) on the copy of a row
Modified(r, modification) ==
    [f \in DOMAIN r |-> IF f \in DOMAIN modification THEN modification[f] ELSE r[f]]

\* replicate_define_meta, lines 165-178: the copies are modified and inserted
ReplicateInsert(p) ==
    /\ pc[p] = "rep_insert"
    /\ LET order == SeqOf(query[p])
       IN BulkInsert([i \in 1 .. Len(order) |-> Modified(order[i], modif[p])])
    /\ Return(p, "None", NullModel)
    /\ query' = [query EXCEPT ![p] = {}]
    /\ UNCHANGED <<modelVars, locks, op, force, model, hash_, nStore, restoreArg, histVars>>
    /\ UNCHANGED <<cremote, clocal, defineFile, runParams, comp, modif, packVars>>

\* the last of the indices S
LastIndex(S) == CHOOSE i \in S : \A j \in S : j <= i

\* rearrange_define_meta: a later row overwrites what an earlier one has set
rearrange_define_meta(data) ==
    LET names == {data[i].component_name : i \in 1 .. Len(data)}
        ofC(c) == {i \in 1 .. Len(data) : data[i].component_name = c}
        ofCA(c, a) == {i \in ofC(c) : data[i].model_alias = a}
        aliases(c) == {data[i].model_alias : i \in ofC(c)}
    IN [component_define |->
            [c \in names |->
                [module_name |-> data[LastIndex(ofC(c))].component_module_name]],
        model_proto |->
            [c \in names |->
                [a \in aliases(c) |-> data[LastIndex(ofCA(c, a))].model_proto_index]]]

\* the file of path written with content, the others as they are
WithFile(files, path, content) ==
    [f \in DOMAIN files \cup {path} |-> IF f = path THEN content ELSE files[f]]

RECURSIVE WriteRunParameters(_, _, _)
\* the loop of lines 121-126 from row i on: each row's run_parameters.json is
\* opened with mode 'x', which raises FileExistsError on a file that exists
WriteRunParameters(data, i, files) ==
    IF i > Len(data) THEN [ok |-> TRUE, files |-> files]
    ELSE IF data[i].component_name \in DOMAIN files
           THEN [ok |-> FALSE, files |-> files]
           ELSE WriteRunParameters(data, i + 1,
                    WithFile(files, data[i].component_name, data[i].run_parameters))

\* save_define_meta_from_db_to_file, lines 117-119: the rows are read
DbToFileQuery(p) ==
    /\ Begin(p, "save_define_meta_from_db_to_file", FALSE)
    /\ IF get_define_meta_from_db(<< >>) = {}
         THEN Return(p, "ValueError", NullModel) /\ UNCHANGED query
         ELSE /\ query' = [query EXCEPT ![p] = get_define_meta_from_db(<< >>)]
              /\ pc' = [pc EXCEPT ![p] = "d2f_write"]
              /\ UNCHANGED ret
    /\ UNCHANGED <<modelVars, locks, storeCalls, storeFailed, metaVars, comp, modif,
                   packVars>>

\* save_define_meta_from_db_to_file, lines 121-131: the run_parameters files
\* are created row by row, then define_meta.yaml is created with mode 'x'
DbToFileWrite(p) ==
    LET data == SeqOf(query[p])
        loop == WriteRunParameters(data, 1, runParams)
    IN /\ pc[p] = "d2f_write"
       /\ runParams' = loop.files
       /\ IF loop.ok /\ defineFile = {}
            THEN /\ defineFile' = {rearrange_define_meta(data)}
                 /\ Return(p, "None", NullModel)
            ELSE /\ Return(p, "FileExistsError", NullModel)
                 /\ UNCHANGED defineFile
       /\ query' = [query EXCEPT ![p] = {}]
       /\ UNCHANGED <<modelVars, locks, op, force, model, hash_, nStore, restoreArg,
                      histVars>>
       /\ UNCHANGED <<rows, nextId, cremote, clocal, comp, modif, packVars>>

(***************************************************************************)
(* SyncComponent                                                           *)
(***************************************************************************)
\* the two maps of lines 27-35, and the configured ServerRegistry storage types
model_storage_map ==
    [mysql |-> "MysqlModelStorage", tencent_cos |-> "TencentCOSModelStorage"]
component_storage_map ==
    [mysql |-> "MysqlComponentStorage", tencent_cos |-> "TencentCOSComponentStorage"]
StoreTypes == {"mysql", "tencent_cos"}

\* get_storage(storage_map), for a configured store_type
get_storage(storage_map, store_type) == storage_map[store_type]

\* the statements of SyncComponent.__init__, lines 118-143, in their order: the
\* attribute of self each assigns and the attributes of self each reads
InitStatements ==
    << [assigns |-> "component_storage", reads |-> {}],
       [assigns |-> "component_storage_parameters",
        reads |-> {"pipelined_model", "component_name"}],
       [assigns |-> "pipelined_model", reads |-> {}],
       [assigns |-> "component_name", reads |-> {}],
       [assigns |-> "query_args", reads |-> {"pipelined_model", "component_name"}],
       [assigns |-> "lock", reads |-> {"component_storage_parameters"}] >>

RECURSIVE RunInit(_, _)
\* the statements from the i-th on, run on an object with the attributes
\* assigned: reading an attribute that is not assigned raises AttributeError
RunInit(i, assigned) ==
    IF i > Len(InitStatements) THEN [ok |-> TRUE, attrs |-> assigned]
    ELSE IF InitStatements[i].reads \subseteq assigned
           THEN RunInit(i + 1, assigned \cup {InitStatements[i].assigns})
           ELSE [ok |-> FALSE, attrs |-> assigned]

NoHandle == [attrs |-> {}, storage |-> "none"]

\* SyncComponent(party_model_id, model_version, component_name)
SyncComponentInit(p, c, store_type) ==
    LET run == RunInit(1, {})
    IN /\ Begin(p, "SyncComponent", FALSE)
       /\ comp' = [comp EXCEPT ![p] = c]
       /\ handle' = [handle EXCEPT ![p] =
              [attrs |-> run.attrs,
               storage |-> IF "component_storage" \in run.attrs
                             THEN get_storage(model_storage_map, store_type)
                             ELSE "none"]]
       /\ IF run.ok THEN Return(p, "None", NullModel)
                    ELSE Return(p, "AttributeError", NullModel)
       /\ UNCHANGED <<modelVars, locks, storeCalls, storeFailed>>
       /\ UNCHANGED <<metaVars, query, modif, tree, dirs, archive, packed, arg, verified>>

\* update_archive_hash, called on its own
UpdateArchiveHash(p, c, h) ==
    /\ Begin(p, "update_archive_hash", FALSE)
    /\ rows' = update_archive_hash(c, h, HOST(p))
    /\ comp' = [comp EXCEPT ![p] = c]
    /\ Return(p, "None", NullModel)
    /\ UNCHANGED <<modelVars, locks, storeCalls, storeFailed>>
    /\ UNCHANGED <<nextId, cremote, clocal, defineFile, runParams, query, modif, packVars>>

\* the frame of a step inside a SyncComponent call
ComponentStepFrame ==
    UNCHANGED <<modelVars, op, force, model, nStore, restoreArg, histVars,
                nextId, defineFile, runParams, comp, query, modif, packVars>>

\* line 166: upload is called
ComponentUpload(p, c) ==
    /\ Begin(p, "component_upload", FALSE)
    /\ comp' = [comp EXCEPT ![p] = c]
    /\ pc' = [pc EXCEPT ![p] = "cu_lock"]
    /\ UNCHANGED <<modelVars, locks, ret, storeCalls, storeFailed>>
    /\ UNCHANGED <<metaVars, query, modif, packVars>>

\* line 167: with self.lock
ComponentUploadLock(p) ==
    /\ pc[p] = "cu_lock"
    /\ LockAcquire(ComponentLockKey(comp[p]), p)
    /\ pc' = [pc EXCEPT ![p] = "cu_hash"]
    /\ UNCHANGED <<hash_, ret, rows, cremote, clocal>>
    /\ ComponentStepFrame

\* upload as it would be if it went on after a failed get_archive_hash
ComponentUploadGetHash_Ignore(p) ==
    /\ pc[p] = "cu_hash"
    /\ pc' = [pc EXCEPT ![p] = "cu_upload"]
    /\ UNCHANGED <<ret, locks, hash_, rows, cremote, clocal>>
    /\ ComponentStepFrame

\* line 168: self.get_archive_hash(), for its ValueError
ComponentUploadGetHash(p) ==
    /\ pc[p] = "cu_hash"
    /\ IF get_archive_hash(comp[p]).ok
         THEN pc' = [pc EXCEPT ![p] = "cu_upload"] /\ UNCHANGED <<ret, locks>>
         ELSE /\ Return(p, "ValueError", NullModel)
              /\ LockRelease(ComponentLockKey(comp[p]), p)
    /\ UNCHANGED <<hash_, rows, cremote, clocal>>
    /\ ComponentStepFrame

\* line 170: hash_ = self.component_storage.upload(...), which returns or raises
ComponentUploadTransfer(p) ==
    /\ pc[p] = "cu_upload"
    /\ \/ \E h \in UploadResults :
            /\ cremote' = [cremote EXCEPT ![comp[p]] = h]
            /\ hash_' = [hash_ EXCEPT ![p] = h]
            /\ pc' = [pc EXCEPT ![p] = "cu_update"]
            /\ UNCHANGED <<ret, locks>>
       \/ /\ Return(p, "TransferError", NullModel)
          /\ LockRelease(ComponentLockKey(comp[p]), p)
          /\ UNCHANGED <<cremote, hash_>>
    /\ UNCHANGED <<rows, clocal>>
    /\ ComponentStepFrame

\* line 172: self.update_archive_hash(hash_), then the lock is left
ComponentUploadUpdate(p) ==
    /\ pc[p] = "cu_update"
    /\ LockRelease(ComponentLockKey(comp[p]), p)
    /\ \/ /\ rows' = update_archive_hash(comp[p], hash_[p], HOST(p))
          /\ Return(p, "None", NullModel)
       \/ /\ Return(p, "SaveError", NullModel)
          /\ UNCHANGED rows
    /\ UNCHANGED <<hash_, cremote, clocal>>
    /\ ComponentStepFrame

\* line 175: download is called
ComponentDownload(p, c) ==
    /\ Begin(p, "component_download", FALSE)
    /\ comp' = [comp EXCEPT ![p] = c]
    /\ pc' = [pc EXCEPT ![p] = "cd_lock"]
    /\ UNCHANGED <<modelVars, locks, ret, storeCalls, storeFailed>>
    /\ UNCHANGED <<metaVars, query, modif, packVars>>

\* line 176: with self.lock
ComponentDownloadLock(p) ==
    /\ pc[p] = "cd_lock"
    /\ LockAcquire(ComponentLockKey(comp[p]), p)
    /\ pc' = [pc EXCEPT ![p] = "cd_hash"]
    /\ UNCHANGED <<hash_, ret, rows, cremote, clocal>>
    /\ ComponentStepFrame

\* line 177: hash_ = self.get_archive_hash()
ComponentDownloadGetHash(p) ==
    /\ pc[p] = "cd_hash"
    /\ IF get_archive_hash(comp[p]).ok
         THEN /\ hash_' = [hash_ EXCEPT ![p] = get_archive_hash(comp[p]).hash]
              /\ pc' = [pc EXCEPT ![p] = "cd_download"]
              /\ UNCHANGED <<ret, locks>>
         ELSE /\ Return(p, "ValueError", NullModel)
              /\ LockRelease(ComponentLockKey(comp[p]), p)
              /\ UNCHANGED hash_
    /\ UNCHANGED <<rows, cremote, clocal>>
    /\ ComponentStepFrame

\* line 179: self.component_storage.download(..., hash_), then the lock is left
ComponentDownloadTransfer(p) ==
    /\ pc[p] = "cd_download"
    /\ LockRelease(ComponentLockKey(comp[p]), p)
    /\ \/ /\ ComponentDownloadCanSucceed(comp[p], hash_[p])
          /\ clocal' = [clocal EXCEPT ![HOST(p)] = @ \cup {comp[p]}]
          /\ Return(p, "None", NullModel)
       \/ /\ Return(p, "TransferError", NullModel)
          /\ UNCHANGED clocal
    /\ UNCHANGED <<hash_, rows, cremote>>
    /\ ComponentStepFrame

(***************************************************************************)
(* PipelinedComponent: the archive of a component                          *)
(***************************************************************************)
\* variables_data_path and checkpoint_path, below model_path
Roots == {"variables/data", "checkpoint"}
FileNames == {"f"}
Contents == {"b1", "b2"}

\* the paths of the component files, relative to model_path and absolute
RelPaths == {<<root, c, n>> : root \in Roots, c \in Components, n \in FileNames}
AbsPath(rel) == <<ModelPath>> \o rel
Paths == {AbsPath(rel) : rel \in RelPaths}

\* path.relative_to(self.model_path)
relative_to(path) == SubSeq(path, 2, Len(path))

\* the directory <root>/<component_name> and the files below it
ComponentDir(root, c) == <<ModelPath, root, c>>
Below(dir) == {path \in DOMAIN tree : SubSeq(path, 1, Len(dir)) = dir}
ParentDir(path) == SubSeq(path, 1, 3)

\* walk_component: the entries zip_file.write adds for the files below dir_path
walk_component(dir) ==
    {[name |-> relative_to(path), data |-> tree[path]] : path \in Below(dir)}

\* pack_component as it would be if it left the checkpoint directory out
PackEntries_NoCheckpoint(c) == walk_component(ComponentDir("variables/data", c))

\* the entries pack_component writes, lines 214-215
PackEntries(c) ==
    walk_component(ComponentDir("variables/data", c))
        \cup walk_component(ComponentDir("checkpoint", c))

\* the bytes of an archive file, and no file at that path
ZipBytes(entries) == [exists |-> TRUE, entries |-> entries]
NoArchive == [exists |-> FALSE, entries |-> {}]

\* hashlib.sha256(filename.read_bytes()).hexdigest(), and the hash_ None
sha256(bytes) == [known |-> TRUE, of |-> bytes.entries]
None == [known |-> FALSE, of |-> {}]

\* a hash no archive of the model has
Deadbeef == [known |-> TRUE, of |-> {[name |-> <<"deadbeef">>, data |-> "b1"]}]

\* zip_file.extractall(self.model_path): the files after the extraction
extractall(entries) ==
    LET new == {AbsPath(e.name) : e \in entries}
        dataOf(path) == (CHOOSE e \in entries : AbsPath(e.name) = path).data
    IN [path \in DOMAIN tree \cup new |->
            IF path \in new THEN dataOf(path) ELSE tree[path]]

\* the component files of tree, as pack_component sees them
ComponentFiles(c) ==
    LET own == Below(ComponentDir("variables/data", c))
                  \cup Below(ComponentDir("checkpoint", c))
    IN [path \in own |-> tree[path]]

EmptyTree == [path \in {} |-> "b1"]
NotPacked == [ok |-> FALSE, files |-> EmptyTree, hash |-> None]

\* the frame of a step of pack_component or unpack_component
PackStepFrame ==
    UNCHANGED <<modelVars, op, force, model, hash_, nStore, restoreArg, histVars,
                metaVars, comp, query, modif, handle>>

\* line 209: pack_component is called
PackComponent(p, c) ==
    /\ Begin(p, "pack_component", FALSE)
    /\ comp' = [comp EXCEPT ![p] = c]
    /\ arg' = [arg EXCEPT ![p] = None]
    /\ verified' = [verified EXCEPT ![p] = FALSE]
    /\ pc' = [pc EXCEPT ![p] = "pk_lock"]
    /\ UNCHANGED <<modelVars, locks, ret, storeCalls, storeFailed>>
    /\ UNCHANGED <<metaVars, query, modif, tree, dirs, archive, packed, handle>>

\* line 212: with self.lock
PackLock(p) ==
    /\ pc[p] = "pk_lock"
    /\ LockAcquire(PackLockKey, p)
    /\ pc' = [pc EXCEPT ![p] = "pk_zip"]
    /\ UNCHANGED <<ret, tree, dirs, archive, packed, arg, verified>>
    /\ PackStepFrame

\* lines 213-219: the archive is opened for writing (which truncates it), the
\* two directories are walked (iterdir raises on a directory that is missing),
\* the bytes written are hashed, and the lock is left
PackZip(p) ==
    LET c == comp[p]
        vd == ComponentDir("variables/data", c)
        ck == ComponentDir("checkpoint", c)
        written == IF vd \notin dirs THEN {}
                   ELSE IF ck \notin dirs THEN walk_component(vd)
                   ELSE PackEntries(c)
    IN /\ pc[p] = "pk_zip"
       /\ LockRelease(PackLockKey, p)
       /\ archive' = [archive EXCEPT ![c] = ZipBytes(written)]
       /\ IF vd \in dirs /\ ck \in dirs
            THEN /\ arg' = [arg EXCEPT ![p] = sha256(ZipBytes(written))]
                 /\ packed' = [packed EXCEPT ![c] =
                                  [ok |-> TRUE, files |-> ComponentFiles(c),
                                   hash |-> sha256(ZipBytes(written))]]
                 /\ Return(p, "packed", NullModel)
            ELSE /\ packed' = [packed EXCEPT ![c] = NotPacked]
                 /\ Return(p, "FileNotFoundError", NullModel)
                 /\ UNCHANGED arg
       /\ UNCHANGED <<tree, dirs, verified>>
       /\ PackStepFrame

\* the hashes unpack_component is called with: none, the hash pack_component
\* returned for the archive, or another one
UnpackArgs(c) == {None, Deadbeef, packed[c].hash}

\* line 221: unpack_component is called
UnpackComponent(p, c, h) ==
    /\ Begin(p, "unpack_component", FALSE)
    /\ comp' = [comp EXCEPT ![p] = c]
    /\ arg' = [arg EXCEPT ![p] = h]
    /\ verified' = [verified EXCEPT ![p] = FALSE]
    /\ pc' = [pc EXCEPT ![p] = "up_lock"]
    /\ UNCHANGED <<modelVars, locks, ret, storeCalls, storeFailed>>
    /\ UNCHANGED <<metaVars, query, modif, tree, dirs, archive, packed, handle>>

\* line 224: with self.lock
UnpackLock(p) ==
    /\ pc[p] = "up_lock"
    /\ LockAcquire(PackLockKey, p)
    /\ pc' = [pc EXCEPT ![p] = "up_verify"]
    /\ UNCHANGED <<ret, tree, dirs, archive, packed, arg, verified>>
    /\ PackStepFrame

\* unpack_component as it would be if it did not compare the hashes
UnpackVerify_NoCompare(p) ==
    /\ pc[p] = "up_verify"
    /\ pc' = [pc EXCEPT ![p] = "up_extract"]
    /\ UNCHANGED <<verified, ret, locks>>
    /\ UNCHANGED <<tree, dirs, archive, packed, arg>>
    /\ PackStepFrame

\* lines 225-229: if a hash was given, the archive is read and hashed, and a
\* different hash raises ValueError
UnpackVerify(p) ==
    LET c == comp[p]
    IN /\ pc[p] = "up_verify"
       /\ IF arg[p] # None
            THEN IF ~archive[c].exists
                   THEN /\ Return(p, "FileNotFoundError", NullModel)
                        /\ LockRelease(PackLockKey, p)
                        /\ UNCHANGED verified
                   ELSE IF arg[p] # sha256(archive[c])
                          THEN /\ Return(p, "ValueError", NullModel)
                               /\ LockRelease(PackLockKey, p)
                               /\ UNCHANGED verified
                          ELSE /\ verified' = [verified EXCEPT ![p] = TRUE]
                               /\ pc' = [pc EXCEPT ![p] = "up_extract"]
                               /\ UNCHANGED <<ret, locks>>
            ELSE /\ pc' = [pc EXCEPT ![p] = "up_extract"]
                 /\ UNCHANGED <<verified, ret, locks>>
       /\ UNCHANGED <<tree, dirs, archive, packed, arg>>
       /\ PackStepFrame

\* lines 231-232: the archive is extracted into model_path, and the lock is left
UnpackExtract(p) ==
    LET c == comp[p]
    IN /\ pc[p] = "up_extract"
       /\ LockRelease(PackLockKey, p)
       /\ IF archive[c].exists
            THEN /\ tree' = extractall(archive[c].entries)
                 /\ dirs' = dirs \cup {ParentDir(AbsPath(e.name)) : e \in archive[c].entries}
                 /\ Return(p, "extracted", NullModel)
            ELSE /\ Return(p, "FileNotFoundError", NullModel)
                 /\ UNCHANGED <<tree, dirs>>
       /\ UNCHANGED <<archive, packed, arg, verified>>
       /\ PackStepFrame

\* the model root is emptied, as the destination of a round trip is
ClearModelRoot ==
    /\ DOMAIN tree # {}
    /\ \A p \in Procs : Idle(p)
    /\ tree' = EmptyTree
    /\ dirs' = {}
    /\ UNCHANGED <<modelVars, locks, procVars, histVars, metaVars, comp, query, modif,
                   archive, packed, arg, verified, handle>>

(***************************************************************************)
(* Specification of SyncModel                                              *)
(***************************************************************************)
\* the state of the processes and of the history before any call
InitProcs ==
    /\ locks = [k \in LockKeys |-> NoProc]
    /\ pc = [p \in Procs |-> "idle"]
    /\ op = [p \in Procs |-> "none"]
    /\ force = [p \in Procs |-> FALSE]
    /\ model = [p \in Procs |-> NullModel]
    /\ hash_ = [p \in Procs |-> Null]
    /\ ret = [p \in Procs |-> [kind |-> "pending", row |-> NullModel]]
    /\ nStore = [p \in Procs |-> 0]
    /\ restoreArg = [p \in Procs |-> NoCall]
    /\ calls = [p \in Procs |-> 0]
    /\ first = [p \in Procs |-> FALSE]
    /\ ncalls = 0
    /\ storeCalls = 0
    /\ storeFailed = FALSE
    /\ seqNF = TRUE
    /\ comp = [p \in Procs |-> "c1"]
    /\ query = [p \in Procs |-> {}]
    /\ modif = [p \in Procs |-> [party_id |-> SelfParty]]
    /\ arg = [p \in Procs |-> None]
    /\ verified = [p \in Procs |-> FALSE]
    /\ handle = [p \in Procs |-> NoHandle]

\* a define_meta.yaml, as get_define_meta_from_file loads it
DefineMeta1 ==
    [component_define |-> [c \in {"c1"} |-> [module_name |-> "m1"]],
     model_proto |-> [c \in {"c1"} |-> [a \in {"a1", "a2"} |-> "p1"]]]

\* the row of a component saved and not uploaded yet
FirstRow == NewRow(1, SelfParty, "c1", "m1", "a1", "p1", "r1")

\* a model not uploaded yet, its row in MLModel or not
InitModel ==
    /\ MLModel \in {{}, {NullModel}}
    /\ remote = NoBlob
    /\ local \in [Hosts -> BOOLEAN]

\* the row of a component uploaded from hostA
UploadedRow == [FirstRow EXCEPT !.archive_sha256 = "h1", !.archive_from_ip = "hostA"]

\* the cache of an imported model (the files, no rows), an empty one, or the
\* database of a model with one component, saved or saved and uploaded
InitMeta ==
    /\ nextId = 2
    /\ clocal = [h \in Hosts |-> {}]
    /\ \/ /\ rows = {}
          /\ defineFile = {DefineMeta1} /\ runParams = [c \in {"c1"} |-> "r1"]
          /\ cremote = [c \in Components |-> NoBlob]
       \/ /\ rows \in {{}, {FirstRow}}
          /\ defineFile = {} /\ runParams = << >>
          /\ cremote = [c \in Components |-> NoBlob]
       \/ /\ rows = {UploadedRow}
          /\ defineFile = {} /\ runParams = << >>
          /\ cremote = [c \in Components |-> IF c = "c1" THEN "h1" ELSE NoBlob]

\* a local cache without component files, and no archive packed
InitNoArchive ==
    /\ tree = EmptyTree
    /\ dirs = {}
    /\ archive = [c \in Components |-> NoArchive]
    /\ packed = [c \in Components |-> NotPacked]

Init ==
    /\ InitProcs
    /\ InitModel
    /\ rows = {FirstRow}
    /\ nextId = 2
    /\ cremote = [c \in Components |-> NoBlob]
    /\ clocal = [h \in Hosts |-> {}]
    /\ defineFile = {}
    /\ runParams = << >>
    /\ InitNoArchive

\* the steps of p that continue a SyncModel call
SyncModelContinue(p) ==
    \/ UploadLock(p)
    \/ UploadGetModel(p)
    \/ UploadStore(p)
    \/ UploadSave(p)
    \/ DownloadLock(p)
    \/ DownloadGetModel(p)
    \/ DownloadRestore(p)

Next ==
    \E p \in Procs :
        \/ \E f \in BOOLEAN : Upload(p, f)
        \/ \E f \in BOOLEAN : Download(p, f)
        \/ SyncModelContinue(p)

Spec == Init /\ [][Next]_vars

(***************************************************************************)
(* Specification of the component metadata and of SyncComponent            *)
(***************************************************************************)
InitComponent ==
    /\ InitProcs
    /\ MLModel = {NullModel}
    /\ remote = NoBlob
    /\ local = [h \in Hosts |-> FALSE]
    /\ InitMeta
    /\ InitNoArchive

\* the steps of p that continue a SyncComponent call
SyncComponentContinue(p) ==
    \/ ComponentUploadLock(p)
    \/ ComponentUploadGetHash(p)
    \/ ComponentUploadTransfer(p)
    \/ ComponentUploadUpdate(p)
    \/ ComponentDownloadLock(p)
    \/ ComponentDownloadGetHash(p)
    \/ ComponentDownloadTransfer(p)

NextComponent ==
    \E p \in Procs :
        \/ \E c \in Components, m \in Modules, a \in Aliases,
              pi \in ProtoIndexes, rp \in RunParameters :
                SaveDefineMeta(p, c, m, a, pi, rp)
        \/ FileToDbCount(p)
        \/ FileToDbInsert(p)
        \/ \E modification \in Modifications, flt \in Filters :
                ReplicateQuery(p, modification, flt)
        \/ ReplicateInsert(p)
        \/ \E c \in Components, h \in Hashes : UpdateArchiveHash(p, c, h)
        \/ \E c \in Components : ComponentUpload(p, c)
        \/ \E c \in Components : ComponentDownload(p, c)
        \/ SyncComponentContinue(p)

SpecComponent == InitComponent /\ [][NextComponent]_vars

(***************************************************************************)
(* Specification of the transfers under fair scheduling: a call that has   *)
(* started takes its next step, whenever that step stays possible          *)
(***************************************************************************)
NextSync ==
    \E p \in Procs :
        \/ \E f \in BOOLEAN : Upload(p, f)
        \/ \E f \in BOOLEAN : Download(p, f)
        \/ \E c \in Components : ComponentUpload(p, c)
        \/ \E c \in Components : ComponentDownload(p, c)
        \/ SyncModelContinue(p)
        \/ SyncComponentContinue(p)

\* a model on hostA, not uploaded yet, with one component row
InitFair ==
    /\ InitProcs
    /\ MLModel \in {{}, {NullModel}}
    /\ remote = NoBlob
    /\ local = [h \in Hosts |-> h = "hostA"]
    /\ rows = {FirstRow}
    /\ nextId = 2
    /\ cremote = [c \in Components |-> NoBlob]
    /\ clocal = [h \in Hosts |-> {}]
    /\ defineFile = {}
    /\ runParams = << >>
    /\ InitNoArchive

SpecFair ==
    /\ InitFair
    /\ [][NextSync]_vars
    /\ \A p \in Procs : WF_vars(SyncModelContinue(p) \/ SyncComponentContinue(p))

(***************************************************************************)
(* Specification of the metadata migrations and of the construction of a   *)
(* SyncComponent                                                           *)
(***************************************************************************)
InitMigration ==
    /\ InitProcs
    /\ MLModel = {NullModel}
    /\ remote = NoBlob
    /\ local = [h \in Hosts |-> FALSE]
    /\ InitMeta
    /\ InitNoArchive

NextMigration ==
    \E p \in Procs :
        \/ \E c \in Components, m \in Modules, a \in Aliases,
              pi \in ProtoIndexes, rp \in RunParameters :
                SaveDefineMeta(p, c, m, a, pi, rp)
        \/ FileToDbCount(p)
        \/ FileToDbInsert(p)
        \/ DbToFileQuery(p)
        \/ DbToFileWrite(p)
        \/ \E modification \in Modifications, flt \in Filters :
                ReplicateQuery(p, modification, flt)
        \/ ReplicateInsert(p)
        \/ \E c \in Components, h \in Hashes : UpdateArchiveHash(p, c, h)
        \/ \E c \in Components, t \in StoreTypes : SyncComponentInit(p, c, t)

SpecMigration == InitMigration /\ [][NextMigration]_vars

(***************************************************************************)
(* Specification of pack_component and unpack_component                    *)
(***************************************************************************)
\* the trees the component files of c1 and one file of c2 can form
InitTrees ==
    LET own == {AbsPath(<<root, "c1", "f">>) : root \in Roots}
        other == AbsPath(<<"variables/data", "c2", "f">>)
    IN UNION {[S \cup {other} -> Contents] : S \in SUBSET own}

\* the component directories: those of the files, and possibly empty ones
InitPack ==
    /\ InitProcs
    /\ MLModel = {NullModel}
    /\ remote = NoBlob
    /\ local = [h \in Hosts |-> FALSE]
    /\ rows = {FirstRow}
    /\ nextId = 2
    /\ cremote = [c \in Components |-> NoBlob]
    /\ clocal = [h \in Hosts |-> {}]
    /\ defineFile = {}
    /\ runParams = << >>
    /\ tree \in InitTrees
    /\ dirs \in {{ParentDir(path) : path \in DOMAIN tree},
                 {ComponentDir(root, c) : root \in Roots, c \in Components}}
    /\ archive = [c \in Components |-> NoArchive]
    /\ packed = [c \in Components |-> NotPacked]

\* the steps of p that continue a call of pack_component or unpack_component
PackContinue(p) ==
    \/ PackLock(p)
    \/ PackZip(p)
    \/ UnpackLock(p)
    \/ UnpackVerify(p)
    \/ UnpackExtract(p)

NextPack ==
    \/ \E p \in Procs :
          \/ \E c \in Components : PackComponent(p, c)
          \/ \E c \in Components : \E h \in UnpackArgs(c) : UnpackComponent(p, c, h)
          \/ PackContinue(p)
    \/ ClearModelRoot

SpecPack == InitPack /\ [][NextPack]_vars

(***************************************************************************)
(* Properties of SyncModel                                                 *)
(***************************************************************************)
\* p is between the acquisition and the release of the model-level lock
InCS(p) == pc[p] \in {"u_get", "u_store", "u_save", "d_get", "d_restore"}

\* the step of p is the start of a call of method name
Starts(p, name) == calls'[p] # calls[p] /\ op'[p] = name

\* the row of the identity, as a read under the lock finds it
TheRow == CHOOSE m \in MLModel : TRUE

\* C1: of all processes calling SyncModel.upload and SyncModel.download on one
\* (party_model_id, model_version), at most one is between lock acquisition and
\* lock release, and it is the holder of the lock: the store/restore call and
\* the row's read-modify-write of one call never interleave with another's.
C1_MutualExclusion ==
    /\ \A p, q \in Procs : InCS(p) /\ InCS(q) => p = q
    /\ \A p \in Procs : InCS(p) <=> locks[ModelLockKey] = p

\* C1 witness: one process has stored and not yet saved while another waits
C1_Witness ==
    \E p, q \in Procs : pc[p] = "u_save" /\ pc[q] \in {"u_lock", "d_lock"}

\* C2: an upload(force_update=False) that reaches its critical section when the
\* remote is already present does not invoke store (the decision to transfer is
\* made from state read under the lock, not from the stale check before it).
C2_DecisionUnderLock ==
    [][\A p \in Procs :
         (pc[p] = "u_store" /\ ~force[p] /\ remote_exits)
             => nStore'[p] = nStore[p]]_vars

\* C3 (as stated): upload(force_update=False) with the remote present returns
\* nothing without the lock, without store and without changing the row; and in
\* a sequential run of upload(force_update=False) calls with the row present,
\* from an absent remote, the first call alone invokes store and every later
\* call is a no-op.
C3_NoOpStep ==
    \A p \in Procs :
        (Starts(p, "upload") /\ ~force'[p] /\ remote_exits)
            => /\ pc'[p] = "done"
               /\ ret'[p] = [kind |-> "None", row |-> NullModel]
               /\ nStore'[p] = 0
               /\ UNCHANGED <<MLModel, remote, locks, storeCalls>>

C3_LaterCallsNoOp ==
    /\ storeCalls <= 1
    /\ (ncalls >= 1 /\ \A p \in Procs : Idle(p)) => storeCalls = 1
    /\ \A p \in Procs :
          (calls[p] > 0 /\ ~first[p]) => /\ pc[p] = "done"
                                         /\ ret[p].kind = "None"
                                         /\ nStore[p] = 0

C4_UploadStoresAndRecords ==
    [][\A p \in Procs :
         /\ (Starts(p, "upload") /\ (~remote_exits \/ force'[p]))
               => pc'[p] = "u_lock"
         /\ (op[p] = "upload" /\ pc[p] # "done" /\ pc'[p] = "done"
                /\ ret'[p].kind \in {"None", "model"})
               => /\ ret'[p].kind = "model"
                  /\ nStore'[p] = 1
                  /\ ret'[p].row = [sha |-> remote, ip |-> HOST(p)]
                  /\ MLModel' = {ret'[p].row}]_vars

\* C4 witness: a forced upload over a present remote has completed
C4_Witness ==
    \E p \in Procs :
        /\ op[p] = "upload" /\ force[p] /\ pc[p] = "done" /\ remote_exits /\ ~first[p]
        /\ ret[p].kind = "model" /\ ret[p].row.ip = HOST(p) /\ nStore[p] = 1

\* C5: whenever nobody holds the model-level lock, the row's archive hash is
\* the hash of the bytes last successfully stored (and null if none were).
C5_HashMatchesBlob ==
    locks[ModelLockKey] = NoProc
        => \A m \in MLModel : m.sha = (IF remote = NoBlob THEN Null ELSE remote)

\* C6: an upload that finds no row in its critical section fails with
\* DoesNotExist; it does not invoke store, changes neither the blob nor the
\* table, and returns no row.
C6_UploadNotFound ==
    [][\A p \in Procs :
         (pc[p] = "u_get" /\ MLModel = {} /\ pc'[p] # pc[p])
             => /\ pc'[p] = "done"
                /\ ret'[p] = [kind |-> "DoesNotExist", row |-> NullModel]
                /\ nStore[p] = 0 /\ nStore'[p] = 0
                /\ UNCHANGED <<MLModel, remote, storeCalls>>]_vars

\* C6 witness: an upload has failed with DoesNotExist
C6_Witness ==
    \E p \in Procs :
        op[p] = "upload" /\ pc[p] = "done" /\ ret[p].kind = "DoesNotExist"

\* C7: download invokes restore exactly when (the local copy is absent or
\* force_update) and (force_update or the origin host of the row read under the
\* lock differs from this host), and passes that row's hash; with the local copy
\* present and no force_update it returns nothing without the lock.
C7_RestoreStep ==
    \A p \in Procs :
        /\ Starts(p, "download")
              => IF local_exits(p) /\ ~force'[p]
                   THEN /\ pc'[p] = "done"
                        /\ ret'[p] = [kind |-> "None", row |-> NullModel]
                        /\ restoreArg'[p] = NoCall
                        /\ UNCHANGED <<locks, local>>
                   ELSE pc'[p] = "d_lock" /\ restoreArg'[p] = NoCall
        /\ (pc[p] \in {"d_lock", "d_get"} /\ pc'[p] # pc[p])
              => restoreArg'[p] = NoCall /\ UNCHANGED local
        /\ (pc[p] = "d_restore" /\ pc'[p] # pc[p])
              => /\ locks[ModelLockKey] = p
                 /\ restoreArg[p] = NoCall
                 /\ IF force[p] \/ TheRow.ip # HOST(p)
                      THEN restoreArg'[p] = TheRow.sha
                      ELSE restoreArg'[p] = NoCall /\ UNCHANGED local

C7_DownloadRestoresIff == [][C7_RestoreStep]_vars

\* C7 witness: an unforced download on the origin host has completed without a
\* restore although the local copy is absent
C7_Witness ==
    \E p \in Procs :
        /\ op[p] = "download" /\ ~force[p] /\ pc[p] = "done"
        /\ ret[p].kind = "model" /\ ret[p].row.ip = HOST(p)
        /\ ~local[HOST(p)] /\ restoreArg[p] = NoCall

(***************************************************************************)
(* Properties of the locks, of SyncComponent and of the component rows     *)
(***************************************************************************)
\* p waits for a lock
Blocked(p) == pc[p] \in {"u_lock", "d_lock", "cu_lock", "cd_lock"}

\* p holds a lock
Holds(p) == \E k \in LockKeys : locks[k] = p

\* the ways a call ends by raising inside its critical section
Raised == {"DoesNotExist", "StoreError", "SaveError", "RestoreError",
           "ValueError", "TransferError"}

\* C8: an upload or download of SyncModel or SyncComponent that has ended, by
\* returning or by raising, holds no lock; and under fair scheduling every
\* caller blocked on a lock eventually acquires it.
C8_LockReleasedAndGranted ==
    /\ [](\A p \in Procs : Idle(p) => ~Holds(p))
    /\ \A p \in Procs : Blocked(p) ~> Holds(p)

\* C8 witness: a call has raised inside its critical section and another
\* process now holds the lock it had
C8_Witness ==
    \E p, q \in Procs :
        /\ pc[p] = "done" /\ ret[p].kind \in Raised
        /\ \/ op[p] \in {"upload", "download"} /\ locks[ModelLockKey] = q
           \/ /\ op[p] \in {"component_upload", "component_download"}
              /\ locks[ComponentLockKey(comp[p])] = q

\* C9: get_archive_hash returns the archive hash of the rows of the component
\* when there are rows and they all carry one (archive hash, origin host) pair,
\* and raises when the rows carry several pairs or when there are no rows.
C9_GetArchiveHash ==
    \A c \in Components :
        LET R == ComponentRows(c)
        IN IF /\ R # {}
              /\ \A r1, r2 \in R : /\ r1.archive_sha256 = r2.archive_sha256
                                   /\ r1.archive_from_ip = r2.archive_from_ip
             THEN /\ get_archive_hash(c).ok
                  /\ \A r \in R : get_archive_hash(c).hash = r.archive_sha256
             ELSE ~get_archive_hash(c).ok

\* C9 witness: a SyncComponent.upload has raised ValueError on a component whose
\* rows carry two pairs
C9_Witness ==
    \E p \in Procs :
        /\ op[p] = "component_upload" /\ pc[p] = "done"
        /\ ret[p].kind = "ValueError"
        /\ Cardinality(ArchiveGroups(comp[p])) = 2

\* the table holds at most one row per (identity, component_name, model_alias)
OneRowPerAlias ==
    \A r1, r2 \in rows :
        (/\ r1.party_id = r2.party_id
         /\ r1.component_name = r2.component_name
         /\ r1.model_alias = r2.model_alias) => r1 = r2

\* C10: all rows of one (identity, component_name) carry the same
\* (archive hash, origin host) pair; stated for the tables that hold one row per
\* (identity, component_name, model_alias), so that the rows that differ are
\* rows of two aliases of the component.
C10_RowsAgree ==
    OneRowPerAlias =>
        \A r1, r2 \in rows :
            (r1.party_id = r2.party_id /\ r1.component_name = r2.component_name)
                => /\ r1.archive_sha256 = r2.archive_sha256
                   /\ r1.archive_from_ip = r2.archive_from_ip

(***************************************************************************)
(* Properties of pack_component and unpack_component                       *)
(***************************************************************************)
\* the step is one of p
StepOf(p) == pc'[p] # pc[p]

\* C11: unpack_component called with a hash that differs from the SHA-256 of
\* the archive raises ValueError before anything is extracted: no step of the
\* call up to and including the comparison changes a file under model_path or
\* the archive, and the failing step releases the lock.
C11_MismatchAborts ==
    [][\A p \in Procs :
         /\ (StepOf(p) /\ op'[p] = "unpack_component"
                /\ pc'[p] \in {"up_lock", "up_verify"})
               => tree' = tree /\ dirs' = dirs /\ archive' = archive
         /\ (StepOf(p) /\ pc[p] = "up_verify" /\ arg[p] # None
                /\ archive[comp[p]].exists /\ arg[p] # sha256(archive[comp[p]]))
               => /\ pc'[p] = "done"
                  /\ ret'[p].kind = "ValueError"
                  /\ tree' = tree /\ dirs' = dirs
                  /\ archive' = archive
                  /\ locks[PackLockKey] = p
                  /\ locks'[PackLockKey] = NoProc]_vars

\* C11 witness: a call with a wrong hash has failed on a packed archive, the
\* files and the archive are there and the lock is free
C11_Witness ==
    \E p \in Procs :
        /\ op[p] = "unpack_component" /\ pc[p] = "done"
        /\ ret[p].kind = "ValueError" /\ arg[p] = Deadbeef
        /\ archive[comp[p]].exists /\ archive[comp[p]].entries # {}
        /\ DOMAIN tree # {}
        /\ locks[PackLockKey] = NoProc

\* C12: while the archive of a component is the one pack_component returned
\* with hash h, unpack_component(component, h) does not raise a hash mismatch,
\* and extracting into an empty model root yields exactly the files that were
\* packed, at their paths and with their contents.
C12_RoundTrip ==
    [][\A p \in Procs :
         (StepOf(p) /\ op[p] = "unpack_component"
             /\ packed[comp[p]].ok /\ arg[p] = packed[comp[p]].hash)
            => /\ pc[p] = "up_verify" => pc'[p] = "up_extract" /\ verified'[p]
               /\ (pc[p] = "up_extract" /\ DOMAIN tree = {})
                     => /\ ret'[p].kind = "extracted"
                        /\ tree' = packed[comp[p]].files]_vars

\* C12 witness: a tree with a file in each of the two directories was packed,
\* the model root emptied, and the archive unpacked with the returned hash
C12_Witness ==
    \E p \in Procs :
        /\ op[p] = "unpack_component" /\ pc[p] = "done"
        /\ ret[p].kind = "extracted" /\ verified[p]
        /\ packed[comp[p]].ok /\ arg[p] = packed[comp[p]].hash
        /\ tree = packed[comp[p]].files
        /\ Cardinality(DOMAIN tree) = 2

\* C18: a call of unpack_component that has extracted the archive has first
\* compared the archive's SHA-256 with the hash it was given.
C18_VerifiedBeforeExtract ==
    \A p \in Procs :
        (op[p] = "unpack_component" /\ pc[p] = "done" /\ ret[p].kind = "extracted")
            => verified[p]

(***************************************************************************)
(* Properties of the metadata migrations                                   *)
(***************************************************************************)
\* C13: a save_define_meta_from_db_to_file that ends with an error has created
\* no file, and a save_define_meta_from_file_to_db that finds a row of the
\* identity ends with an error and inserts nothing.
C13_RefusedLeavesDestination ==
    [][\A p \in Procs :
         /\ (StepOf(p) /\ pc[p] = "d2f_write" /\ ret'[p].kind = "FileExistsError")
               => runParams' = runParams /\ defineFile' = defineFile
         /\ (Starts(p, "save_define_meta_from_file_to_db") /\ SelfRows # {})
               => ret'[p].kind = "ValueError" /\ rows' = rows]_vars

\* the view get_define_meta derives from the rows read by the call of p
ViewOfRows(R) == rearrange_define_meta(SeqOf(R))

\* no two rows of R have the same component and alias
DistinctAliases(R) ==
    \A r1, r2 \in R :
        (r1.component_name = r2.component_name /\ r1.model_alias = r2.model_alias)
            => r1 = r2

\* C14: save_define_meta_from_db_to_file of rows with distinct (component,
\* alias) into a local cache without define_meta and run_parameters files
\* succeeds and writes the view of the rows, and
\* save_define_meta_from_file_to_db into an empty table inserts rows whose view
\* is the document of the file.
C14_RoundTrip ==
    [][\A p \in Procs :
         /\ (StepOf(p) /\ pc[p] = "d2f_write" /\ defineFile = {}
                /\ DOMAIN runParams = {} /\ DistinctAliases(query[p]))
               => /\ ret'[p].kind = "None"
                  /\ defineFile' = {ViewOfRows(query[p])}
         /\ (StepOf(p) /\ pc[p] = "f2d_insert" /\ rows = {} /\ defineFile # {})
               => \A doc \in defineFile :
                     ViewOfRows({r \in rows' : r.party_id = SelfParty}) = doc]_vars

\* the fields of a row other than its id
RowFields == DOMAIN FirstRow \ {"id"}

\* the new row n is the copy of src under modification
CopyOf(n, src, modification) ==
    \A f \in RowFields :
        n[f] = IF f \in DOMAIN modification THEN modification[f] ELSE src[f]

\* C15: replicate_define_meta raises and inserts nothing when no row matches
\* the filter; otherwise it inserts one new row per row read, each the copy of
\* its source but for the id and the fields of modification, and changes no
\* row that was there.
C15_Replicate ==
    [][\A p \in Procs :
         /\ (Starts(p, "replicate_define_meta") /\ pc'[p] = "done")
               => ret'[p].kind = "ValueError" /\ rows' = rows
         /\ (Starts(p, "replicate_define_meta") /\ pc'[p] # "done")
               => query'[p] # {} /\ query'[p] \subseteq rows /\ rows' = rows
         /\ (StepOf(p) /\ pc[p] = "rep_insert")
               => /\ rows \subseteq rows'
                  /\ Cardinality(rows' \ rows) = Cardinality(query[p])
                  /\ \A n \in rows' \ rows :
                        /\ n.id \notin {r.id : r \in rows}
                        /\ \E src \in query[p] : CopyOf(n, src, modif[p])
                  /\ \A src \in query[p] :
                        \E n \in rows' \ rows : CopyOf(n, src, modif[p])]_vars

\* C15 witness: the row of an uploaded component has been copied for another
\* party, and the row is as it was
C15_Witness ==
    \E p \in Procs :
        /\ op[p] = "replicate_define_meta" /\ pc[p] = "done" /\ ret[p].kind = "None"
        /\ UploadedRow \in rows
        /\ \E n \in rows : n.party_id = "P2" /\ n.archive_sha256 = "h1"

\* the processes whose call of save_define_meta_from_file_to_db has inserted
Inserters ==
    {p \in Procs : /\ op[p] = "save_define_meta_from_file_to_db"
                   /\ pc[p] = "done" /\ ret[p].kind = "None"}

\* C20: of the calls of save_define_meta_from_file_to_db for the identity, at
\* most one inserts rows.
C20_OneInsert == Cardinality(Inserters) <= 1

\* C19: a construction of SyncComponent ends without error, with every
\* attribute assigned and the storage of component_storage_map bound.
C19_ConstructorSucceeds ==
    \A p \in Procs :
        (op[p] = "SyncComponent" /\ pc[p] = "done")
            => /\ ret[p].kind = "None"
               /\ handle[p].attrs = {InitStatements[i].assigns :
                                        i \in 1 .. Len(InitStatements)}
               /\ handle[p].storage \in {component_storage_map[t] : t \in StoreTypes}

(***************************************************************************)
(* Properties of SyncComponent.upload and of the connection leases         *)
(***************************************************************************)
\* C16: SyncComponent.upload changes the blob only at its upload step, inside
\* the lock and after get_archive_hash, and the rows only at its update step;
\* a failed get_archive_hash ends the call with blob and rows as they were, a
\* failed blob upload leaves the rows as they were, and when the call returns
\* every row of the component carries the hash the upload returned and HOST.
C16_UploadOrder ==
    [][\A p \in Procs :
         /\ (StepOf(p) /\ op'[p] = "component_upload" /\ cremote' # cremote)
               => pc[p] = "cu_upload" /\ locks[ComponentLockKey(comp[p])] = p
         /\ (StepOf(p) /\ op'[p] = "component_upload" /\ rows' # rows)
               => pc[p] = "cu_update" /\ locks[ComponentLockKey(comp[p])] = p
         /\ (StepOf(p) /\ pc[p] = "cu_hash" /\ ~get_archive_hash(comp[p]).ok)
               => /\ pc'[p] = "done" /\ ret'[p].kind = "ValueError"
                  /\ rows' = rows /\ cremote' = cremote
         /\ (StepOf(p) /\ pc[p] = "cu_update" /\ ret'[p].kind = "None")
               => /\ hash_[p] = cremote[comp[p]]
                  /\ \A r \in rows' :
                        (r.party_id = SelfParty /\ r.component_name = comp[p])
                           => /\ r.archive_sha256 = hash_[p]
                              /\ r.archive_from_ip = HOST(p)]_vars

\* C16 witness: an upload has returned on a component with rows, which carry
\* the hash of the blob and the host of the caller
C16_Witness ==
    \E p \in Procs :
        /\ op[p] = "component_upload" /\ pc[p] = "done" /\ ret[p].kind = "None"
        /\ ComponentRows(comp[p]) # {}
        /\ \A r \in ComponentRows(comp[p]) :
              r.archive_sha256 = cremote[comp[p]] /\ r.archive_from_ip = HOST(p)

\* the lease of the decorator @DB.connection_context() on SyncModel.upload,
\* SyncModel.download, SyncComponent.upload and SyncComponent.download: the
\* connection is opened when the method is entered and closed when it is left
connection_context(p) ==
    /\ op[p] \in {"upload", "download", "component_upload", "component_download"}
    /\ ~Idle(p)

\* p waits for a lock, or is in a transfer of the storage backend
WaitsOrTransfers(p) ==
    pc[p] \in {"u_lock", "u_store", "d_lock", "d_restore",
               "cu_lock", "cu_upload", "cd_lock", "cd_download"}

\* C17: no process holds a connection lease while it waits for the lock or
\* while the storage backend transfers a blob.
C17_NoLeaseAcrossLock ==
    \A p \in Procs : WaitsOrTransfers(p) => ~connection_context(p)
====
